---- MODULE Spec2Model ----
(***************************************************************************)
(* Model of autogenstudio/database/utils.py: the sample seeding            *)
(* (init_db_samples), the reconstruction of a workflow's object graph      *)
(* (workflow_from_id) and the schema migration driver (run_migration).     *)
(***************************************************************************)
EXTENDS Integers, Sequences, FiniteSets, TLC

VARIABLES
    models,          \* rows of table Model: [id, model]
    skills,          \* rows of table Skill: [id, name]
    agents,          \* rows of table Agent: [id, name, type, llm_config]
    workflows,       \* rows of table Workflow: [id, name, type]
    agent_model,     \* rows of the agent-model link table, in row order
    agent_skill,     \* rows of the agent-skill link table, in row order
    agent_agent,     \* rows of the agent-agent link table, in row order
    workflow_agent,  \* rows of WorkflowAgentLink, in row order
    seedPc,          \* position inside init_db_samples: 0 = not running, k = about to make link call k
    seedIds,         \* ids given by the commit to the records of the running init_db_samples
    seedLog,         \* history of the init_db_samples calls: the workflow names each found, whether
                     \* it inserted the samples, the link calls that failed, whether it has returned
    deletes,         \* number of workflows deleted by users so far
    wfCall,          \* outcome of the last workflow_from_id call
    migPc,           \* position inside run_migration
    should_initialize_alembic, \* run_migration's local flag
    calls,           \* alembic commands invoked by the current run_migration, with their outcomes
    runs             \* number of run_migration executions started

dbVars == <<models, skills, agents, workflows, agent_model, agent_skill, agent_agent, workflow_agent>>
seedVars == <<seedPc, seedIds, seedLog, deletes>>
migVars == <<migPc, should_initialize_alembic, calls, runs>>
vars == <<dbVars, seedVars, wfCall, migVars>>

\* ------------------------------------------------------------------ bounds
MaxInitCalls == 3      \* init_db_samples calls in one behaviour
MaxDeletes == 2        \* workflow deletions in one behaviour
MaxLinkFailures == 1   \* failing dbmanager.link calls in one behaviour

\* ------------------------------------------------------------------ helpers
Range(s) == {s[i] : i \in 1..Len(s)}

SetMax(S) == IF S = {} THEN 0 ELSE CHOOSE x \in S : \A y \in S : y <= x

\* The id an INTEGER PRIMARY KEY column gives to the k-th row inserted by one commit.
NewId(rows, k) == SetMax({r.id : r \in rows}) + k

RECURSIVE SelectSeq2(_, _)
\* The rows of s that satisfy Test, in row order (Test is a set of accepted rows).
SelectSeq2(s, accepted) ==
    IF s = <<>> THEN <<>>
    ELSE IF Head(s) \in accepted THEN <<Head(s)>> \o SelectSeq2(Tail(s), accepted)
    ELSE SelectSeq2(Tail(s), accepted)

\* ------------------------------------------------------------------ sample records
\* In the order of the session.add calls.
SampleModels == <<"zephyr", "gemini-1.5-pro-latest", "gpt4-turbo", "gpt-4-1106-preview">>

SampleSkills == <<"generate_and_save_images", "generate_and_save_pdf">>

SampleAgents ==
    << [name |-> "user_proxy", type |-> "userproxy", llm_config |-> "false"],
       [name |-> "default_assistant", type |-> "assistant", llm_config |-> "empty"],
       [name |-> "travel_groupchat", type |-> "groupchat", llm_config |-> "empty"],
       [name |-> "planner_assistant", type |-> "assistant", llm_config |-> "empty"],
       [name |-> "local_assistant", type |-> "assistant", llm_config |-> "empty"],
       [name |-> "language_assistant", type |-> "assistant", llm_config |-> "empty"] >>

SampleWorkflows == <<"Travel Planning Workflow", "Default Workflow">>

\* The dbmanager.link calls of init_db_samples, in program order. primary and
\* secondary name the sample record whose id is passed.
SampleLinks ==
    << [link_type |-> "agent_model", primary |-> "default_assistant", secondary |-> "gpt-4-1106-preview", agent_type |-> "none"],
       [link_type |-> "agent_skill", primary |-> "default_assistant", secondary |-> "generate_and_save_images", agent_type |-> "none"],
       [link_type |-> "workflow_agent", primary |-> "Default Workflow", secondary |-> "user_proxy", agent_type |-> "sender"],
       [link_type |-> "workflow_agent", primary |-> "Default Workflow", secondary |-> "default_assistant", agent_type |-> "receiver"],
       [link_type |-> "agent_agent", primary |-> "travel_groupchat", secondary |-> "planner_assistant", agent_type |-> "none"],
       [link_type |-> "agent_agent", primary |-> "travel_groupchat", secondary |-> "local_assistant", agent_type |-> "none"],
       [link_type |-> "agent_agent", primary |-> "travel_groupchat", secondary |-> "language_assistant", agent_type |-> "none"],
       [link_type |-> "agent_agent", primary |-> "travel_groupchat", secondary |-> "user_proxy", agent_type |-> "none"],
       [link_type |-> "agent_model", primary |-> "travel_groupchat", secondary |-> "gpt-4-1106-preview", agent_type |-> "none"],
       [link_type |-> "agent_model", primary |-> "planner_assistant", secondary |-> "gpt-4-1106-preview", agent_type |-> "none"],
       [link_type |-> "agent_model", primary |-> "local_assistant", secondary |-> "gpt-4-1106-preview", agent_type |-> "none"],
       [link_type |-> "agent_model", primary |-> "language_assistant", secondary |-> "gpt-4-1106-preview", agent_type |-> "none"],
       [link_type |-> "workflow_agent", primary |-> "Travel Planning Workflow", secondary |-> "user_proxy", agent_type |-> "sender"],
       [link_type |-> "workflow_agent", primary |-> "Travel Planning Workflow", secondary |-> "travel_groupchat", agent_type |-> "receiver"] >>

\* ------------------------------------------------------------------ init_db_samples
\* AgentConfig(llm_config=...).model_dump(mode="json"): the field holds an
\* LLMConfig or a bool, so the {} the samples pass is dumped as the dictionary
\* of LLMConfig's defaults, which is not empty; False stays False.
AgentConfig_model_dump(llm_config) ==
    IF llm_config = "empty" THEN "dict" ELSE llm_config

\* A guard that looks for a workflow name the samples do not use.
AlreadyInitialized_wrong_name(workflow_names) ==
    "Default Workflow" \in workflow_names /\ "Travel Workflow" \in workflow_names

\* The guard of init_db_samples: both sample workflow names are present.
AlreadyInitialized(workflow_names) ==
    "Default Workflow" \in workflow_names /\ "Travel Planning Workflow" \in workflow_names

\* name -> id of the records one commit inserts, given the tables before it.
CommitIds ==
    [n \in Range(SampleModels) \cup Range(SampleSkills)
           \cup {SampleAgents[i].name : i \in 1..Len(SampleAgents)} \cup Range(SampleWorkflows) |->
        IF n \in Range(SampleModels)
          THEN NewId(models, CHOOSE i \in 1..Len(SampleModels) : SampleModels[i] = n)
        ELSE IF n \in Range(SampleSkills)
          THEN NewId(skills, CHOOSE i \in 1..Len(SampleSkills) : SampleSkills[i] = n)
        ELSE IF n \in Range(SampleWorkflows)
          THEN NewId(workflows, CHOOSE i \in 1..Len(SampleWorkflows) : SampleWorkflows[i] = n)
        ELSE NewId(agents, CHOOSE i \in 1..Len(SampleAgents) : SampleAgents[i].name = n)]

LinkFailures == Cardinality(UNION {{<<i, k>> : k \in seedLog[i].failed} : i \in 1..Len(seedLog)})

\* init_db_samples up to and including session.commit(): the early return, or
\* the fourteen session.add calls and the commit.
init_db_samples ==
    /\ seedPc = 0
    /\ Len(seedLog) < MaxInitCalls
    /\ LET workflow_names == {w.name : w \in workflows}
           entry == [names |-> workflow_names,
                     empty_db |-> models = {} /\ skills = {} /\ agents = {} /\ workflows = {},
                     deletes |-> deletes,
                     inserted |-> ~AlreadyInitialized(workflow_names),
                     failed |-> {},
                     done |-> AlreadyInitialized(workflow_names)]
       IN  IF AlreadyInitialized(workflow_names)
           THEN /\ seedLog' = Append(seedLog, entry)
                /\ UNCHANGED <<dbVars, seedPc, seedIds>>
           ELSE /\ models' = models \cup
                      {[id |-> CommitIds[SampleModels[i]], model |-> SampleModels[i]] : i \in 1..Len(SampleModels)}
                /\ skills' = skills \cup
                      {[id |-> CommitIds[SampleSkills[i]], name |-> SampleSkills[i]] : i \in 1..Len(SampleSkills)}
                /\ agents' = agents \cup
                      {[id |-> CommitIds[SampleAgents[i].name], name |-> SampleAgents[i].name,
                        type |-> SampleAgents[i].type, llm_config |-> AgentConfig_model_dump(SampleAgents[i].llm_config)] :
                          i \in 1..Len(SampleAgents)}
                /\ workflows' = workflows \cup
                      {[id |-> CommitIds[SampleWorkflows[i]], name |-> SampleWorkflows[i],
                        type |-> "autonomous"] : i \in 1..Len(SampleWorkflows)}
                /\ seedIds' = CommitIds
                /\ seedPc' = 1
                /\ seedLog' = Append(seedLog, entry)
                /\ UNCHANGED <<agent_model, agent_skill, agent_agent, workflow_agent>>
    /\ UNCHANGED <<deletes, wfCall, migVars>>

\* dbmanager.link: the link tables after a successful call, which appends one
\* row to the table link_type names.
link(tables, link_type, primary_id, secondary_id, agent_type) ==
    IF link_type = "workflow_agent"
      THEN [tables EXCEPT !.workflow_agent =
              Append(@, [workflow_id |-> primary_id, agent_id |-> secondary_id,
                         agent_type |-> agent_type, sequence_id |-> 0])]
    ELSE [tables EXCEPT ![link_type] =
              Append(@, [primary_id |-> primary_id, secondary_id |-> secondary_id])]

LinkTables ==
    [agent_model |-> agent_model, agent_skill |-> agent_skill,
     agent_agent |-> agent_agent, workflow_agent |-> workflow_agent]

\* The seedPc-th dbmanager.link call of init_db_samples; after the last one the
\* function returns. A link call that fails reports it in its response and
\* init_db_samples goes on.
init_db_samples_link ==
    /\ seedPc \in 1..Len(SampleLinks)
    /\ LET l == SampleLinks[seedPc]
           n == Len(seedLog)
           last == (seedPc = Len(SampleLinks))
       IN  \E ok \in BOOLEAN :
             /\ ok \/ LinkFailures < MaxLinkFailures
             /\ LET t == IF ok THEN link(LinkTables, l.link_type, seedIds[l.primary],
                                         seedIds[l.secondary], l.agent_type)
                         ELSE LinkTables
                IN  /\ agent_model' = t.agent_model
                    /\ agent_skill' = t.agent_skill
                    /\ agent_agent' = t.agent_agent
                    /\ workflow_agent' = t.workflow_agent
             /\ seedLog' = [seedLog EXCEPT ![n] =
                               [@ EXCEPT !.failed = IF ok THEN @ ELSE @ \cup {seedPc},
                                         !.done = last]]
             /\ seedPc' = IF last THEN 0 ELSE seedPc + 1
    /\ UNCHANGED <<models, skills, agents, workflows, seedIds, deletes, wfCall, migVars>>

\* A user deletes a workflow through the API; its WorkflowAgentLink rows go with it.
DeleteWorkflow ==
    /\ seedPc = 0
    /\ deletes < MaxDeletes
    /\ \E w \in workflows :
         /\ workflows' = workflows \ {w}
         /\ workflow_agent' = SelectSeq2(workflow_agent,
                                 {r \in Range(workflow_agent) : r.workflow_id # w.id})
    /\ deletes' = deletes + 1
    /\ UNCHANGED <<models, skills, agents, agent_model, agent_skill, agent_agent,
                   seedPc, seedIds, seedLog, wfCall, migVars>>

\* ------------------------------------------------------------------ workflow_from_id
\* dump_agent: the group chat fields are dumped for a groupchat agent only.
dump_agent(agent) ==
    [error |-> "none", id |-> agent.id, name |-> agent.name, type |-> agent.type,
     exclude |-> IF agent.type # "groupchat"
                 THEN {"admin_name", "messages", "max_round",
                       "speaker_selection_method", "allow_repeat_speaker"}
                 ELSE {},
     llm_config |-> agent.llm_config]

\* The rows of `table` whose primary_id is id, in row order: agent.skills,
\* agent.models and agent.agents are read through them.
LinkedIds(table, id) ==
    LET rows == SelectSeq2(table, {r \in Range(table) : r.primary_id = id})
    IN  [i \in 1..Len(rows) |-> rows[i].secondary_id]

\* Python truthiness of a dumped llm_config: False and {} are falsy.
Truthy(llm_config) == llm_config \notin {"false", "empty"}

\* A chain of nested get_agent calls longer than the number of agents visits
\* an agent twice and so never ends: Python stops it with RecursionError.
RecursionLimit == Cardinality(agents)

\* A dump of a linked model that leaves nothing out, as for agent_dict["models"].
model_dump_everything(model) == model

\* model.model_dump(mode="json", exclude=model_exclude): a linked model without
\* id, agent_id, created_at, updated_at, user_id and description.
model_dump_excluding(model) == [model |-> model.model]

\* The body of get_agent for an agent that exists, given the dictionaries
\* `subs` of its sub-agents (agent.agents).
agent_dict_with(agent_id, subs) ==
    LET agent == CHOOSE a \in agents : a.id = agent_id
        agent_dict == dump_agent(agent)
        skill_ids == LinkedIds(agent_skill, agent_id)
        model_ids == LinkedIds(agent_model, agent_id)
        skill_list == [i \in 1..Len(skill_ids) |-> CHOOSE k \in skills : k.id = skill_ids[i]]
        model_rows == [i \in 1..Len(model_ids) |-> CHOOSE m \in models : m.id = model_ids[i]]
        model_list == [i \in 1..Len(model_rows) |-> model_dump_excluding(model_rows[i])]
        config_list == IF Len(model_list) > 0 /\ Truthy(agent_dict.llm_config)
                       THEN [set |-> TRUE, value |-> model_list]
                       ELSE [set |-> FALSE, value |-> <<>>]
        bad == {i \in 1..Len(subs) : subs[i].error # "none"}
    IN  IF bad # {} THEN [error |-> subs[CHOOSE i \in bad : \A j \in bad : i <= j].error]
        ELSE [error |-> "none", id |-> agent_dict.id, name |-> agent_dict.name,
              type |-> agent_dict.type, exclude |-> agent_dict.exclude,
              llm_config |-> agent_dict.llm_config, config_list |-> config_list,
              skills |-> skill_list, models |-> model_rows, agents |-> subs]

RECURSIVE get_agent(_, _)
\* A get_agent that nests one level only: the sub-agents of a sub-agent are left out.
get_agent_one_level(agent_id, depth) ==
    IF depth > RecursionLimit THEN [error |-> "RecursionError"]
    ELSE IF ~\E a \in agents : a.id = agent_id THEN [error |-> "IndexError"]
    ELSE LET sub_ids == IF depth >= 2 THEN <<>> ELSE LinkedIds(agent_agent, agent_id)
         IN  agent_dict_with(agent_id, [i \in 1..Len(sub_ids) |-> get_agent(sub_ids[i], depth + 1)])

\* get_agent(agent_id) at nesting depth `depth` of the recursion.
get_agent(agent_id, depth) ==
    IF depth > RecursionLimit THEN [error |-> "RecursionError"]
    ELSE IF ~\E a \in agents : a.id = agent_id THEN [error |-> "IndexError"]
    ELSE LET sub_ids == LinkedIds(agent_agent, agent_id)
         IN  agent_dict_with(agent_id, [i \in 1..Len(sub_ids) |-> get_agent(sub_ids[i], depth + 1)])

RECURSIVE InsertSorted_unstable(_, _)
\* An insertion that puts e before the entries of equal key.
InsertSorted_unstable(s, e) ==
    IF s = <<>> THEN <<e>>
    ELSE IF Head(s).link.sequence_id < e.link.sequence_id
      THEN <<Head(s)>> \o InsertSorted_unstable(Tail(s), e)
    ELSE <<e>> \o s

RECURSIVE InsertSorted(_, _)
\* e put into the sorted list s after every entry whose key is not greater.
InsertSorted(s, e) ==
    IF s = <<>> THEN <<e>>
    ELSE IF Head(s).link.sequence_id <= e.link.sequence_id
      THEN <<Head(s)>> \o InsertSorted(Tail(s), e)
    ELSE <<e>> \o s

RECURSIVE SortFrom(_, _)
SortFrom(done, rest) ==
    IF rest = <<>> THEN done ELSE SortFrom(InsertSorted(done, Head(rest)), Tail(rest))

\* sorted(agents, key=lambda x: x["link"]["sequence_id"]): Python's sort is stable.
sorted(entries) == SortFrom(<<>>, entries)

\* workflow_from_id once the workflow row is known to exist: the links are
\* fetched, each agent is built, the entries are sorted for a sequential workflow.
build_workflow(workflow_id) ==
    LET w == CHOOSE x \in workflows : x.id = workflow_id
        workflow_agent_links ==
            SelectSeq2(workflow_agent, {r \in Range(workflow_agent) : r.workflow_id = workflow_id})
        entries == [i \in 1..Len(workflow_agent_links) |->
                      [agent |-> get_agent(workflow_agent_links[i].agent_id, 1),
                       link |-> workflow_agent_links[i]]]
        bad == {i \in 1..Len(entries) : entries[i].agent.error # "none"}
        first_bad == CHOOSE i \in bad : \A j \in bad : i <= j
        queries == <<"Workflow", "WorkflowAgentLink">> \o
                   [i \in 1..(IF bad = {} THEN Len(entries) ELSE first_bad) |-> "Agent"]
    IN  IF bad # {}
        THEN [status |-> entries[first_bad].agent.error,
              workflow_id |-> workflow_id, queries |-> queries]
        ELSE [status |-> "returned", workflow_id |-> workflow_id, queries |-> queries,
              workflow |-> [id |-> w.id, name |-> w.name, type |-> w.type,
                            agents |-> IF w.type = "sequential" THEN sorted(entries)
                                       ELSE entries]]

\* A workflow_from_id that fetches the links before it looks at the workflow row.
workflow_from_id_late_check(workflow_id) ==
    IF {w \in workflows : w.id = workflow_id} = {}
    THEN [status |-> "ValueError", workflow_id |-> workflow_id,
          queries |-> <<"Workflow", "WorkflowAgentLink">>]
    ELSE build_workflow(workflow_id)

\* workflow_from_id(workflow_id): what the call raises or returns, with the
\* tables it has queried up to then.
workflow_from_id(workflow_id) ==
    LET workflow == {w \in workflows : w.id = workflow_id}
    IN  IF workflow = {}
        THEN [status |-> "ValueError", workflow_id |-> workflow_id, queries |-> <<"Workflow">>]
        ELSE build_workflow(workflow_id)

\* A caller asks for a workflow: the id of a row or one past the ids in use.
WorkflowFromId ==
    /\ seedPc = 0
    /\ \E workflow_id \in {w.id : w \in workflows} \cup {SetMax({w.id : w \in workflows}) + 1} :
         wfCall' = workflow_from_id(workflow_id)
    /\ UNCHANGED <<dbVars, seedVars, migVars>>

\* ------------------------------------------------------------------ run_migration
MaxRuns == 2    \* run_migration executions in one behaviour

\* What an alembic command can do: return, or raise one of the exceptions the
\* code tells apart (AutogenerateDiffsDetected is a CommandError to isinstance
\* and to the except clauses alike) or any other exception.
Outcomes == {"ok", "CommandError", "AutogenerateDiffsDetected", "Exception"}

Raised(outcome) == outcome # "ok"

Call(cmd, outcome) == [cmd |-> cmd, outcome |-> outcome]

\* run_migration is called: the engine, the log buffer and the alembic
\* configuration are set up.
run_migration ==
    /\ migPc \in {"idle", "returned", "RuntimeError", "propagated"}
    /\ runs < MaxRuns
    /\ runs' = runs + 1
    /\ calls' = <<>>
    /\ should_initialize_alembic' = FALSE
    /\ migPc' = "query"
    /\ UNCHANGED <<dbVars, seedVars, wfCall>>

\* SELECT * FROM alembic_version: any exception sets should_initialize_alembic.
query_alembic_version ==
    /\ migPc = "query"
    /\ \E failed \in BOOLEAN :
         /\ should_initialize_alembic' = failed
         /\ migPc' = "initialize"
    /\ UNCHANGED <<dbVars, seedVars, wfCall, calls, runs>>

\* An initialization that runs the upgrade before it makes sure of the version table.
initialize_alembic_swapped(flag, ev, up) ==
    IF ~flag THEN [calls |-> <<>>, pc |-> "check"]
    ELSE IF Raised(up) THEN [calls |-> <<Call("upgrade", up)>>, pc |-> "RuntimeError"]
    ELSE IF Raised(ev)
      THEN [calls |-> <<Call("upgrade", up), Call("ensure_version", ev)>>, pc |-> "RuntimeError"]
    ELSE [calls |-> <<Call("upgrade", up), Call("ensure_version", ev)>>, pc |-> "check"]

\* An initialization that logs the exception and goes on to the checks.
initialize_alembic_swallow(flag, ev, up) ==
    IF ~flag THEN [calls |-> <<>>, pc |-> "check"]
    ELSE IF Raised(ev) THEN [calls |-> <<Call("ensure_version", ev)>>, pc |-> "check"]
    ELSE [calls |-> <<Call("ensure_version", ev), Call("upgrade", up)>>, pc |-> "check"]

\* The block under `if should_initialize_alembic`: the commands it invokes when
\* ensure_version ends with ev and upgrade with up, and where control goes.
initialize_alembic(flag, ev, up) ==
    IF ~flag THEN [calls |-> <<>>, pc |-> "check"]
    ELSE IF Raised(ev) THEN [calls |-> <<Call("ensure_version", ev)>>, pc |-> "RuntimeError"]
    ELSE IF Raised(up)
      THEN [calls |-> <<Call("ensure_version", ev), Call("upgrade", up)>>, pc |-> "RuntimeError"]
    ELSE [calls |-> <<Call("ensure_version", ev), Call("upgrade", up)>>, pc |-> "check"]

initialize ==
    /\ migPc = "initialize"
    /\ \E ev \in Outcomes, up \in Outcomes :
         \* the outcome of a command that is not invoked does not matter
         /\ (~should_initialize_alembic) => (ev = "ok" /\ up = "ok")
         /\ Raised(ev) => up = "ok"
         /\ LET r == initialize_alembic(should_initialize_alembic, ev, up)
            IN  /\ calls' = calls \o r.calls
                /\ migPc' = r.pc
    /\ UNCHANGED <<dbVars, seedVars, wfCall, should_initialize_alembic, runs>>

\* A first check that answers every exception with the upgrade.
check_migrations_any_exception(chk, up) ==
    IF Raised(chk) THEN <<Call("check", chk), Call("upgrade", up)>> ELSE <<Call("check", chk)>>

\* The first try block: command.check, and command.upgrade when it raised
\* CommandError or AutogenerateDiffsDetected; whatever the upgrade raises is logged.
check_migrations(chk, up) ==
    IF chk \in {"CommandError", "AutogenerateDiffsDetected"}
    THEN <<Call("check", chk), Call("upgrade", up)>>
    ELSE <<Call("check", chk)>>

check ==
    /\ migPc = "check"
    /\ \E chk \in Outcomes, up \in Outcomes :
         /\ LET made == check_migrations(chk, up)
            IN  /\ (Len(made) = 1) => up = "ok"
                /\ calls' = calls \o made
         /\ migPc' = "recheck"
    /\ UNCHANGED <<dbVars, seedVars, wfCall, should_initialize_alembic, runs>>

\* A second try block that checks again after a failed check.
recheck_migrations_retry(chk) ==
    IF Raised(chk)
    THEN [calls |-> <<Call("check", chk), Call("check", chk)>>,
          pc |-> IF chk = "Exception" THEN "propagated" ELSE "returned"]
    ELSE [calls |-> <<Call("check", chk)>>, pc |-> "returned"]

\* The second try block: command.check again; AutogenerateDiffsDetected and
\* CommandError are logged, anything else leaves run_migration.
recheck_migrations(chk) ==
    [calls |-> <<Call("check", chk)>>,
     pc |-> IF chk = "Exception" THEN "propagated" ELSE "returned"]

recheck ==
    /\ migPc = "recheck"
    /\ \E chk \in Outcomes :
         LET r == recheck_migrations(chk)
         IN  /\ calls' = calls \o r.calls
             /\ migPc' = r.pc
    /\ UNCHANGED <<dbVars, seedVars, wfCall, should_initialize_alembic, runs>>

\* ------------------------------------------------------------------ specifications
EmptyDb ==
    /\ models = {} /\ skills = {} /\ agents = {} /\ workflows = {}
    /\ agent_model = <<>> /\ agent_skill = <<>> /\ agent_agent = <<>> /\ workflow_agent = <<>>

SeedIdle == seedPc = 0 /\ seedIds = <<>> /\ seedLog = <<>> /\ deletes = 0

WfIdle == wfCall = [status |-> "none"]

MigIdle == migPc = "idle" /\ should_initialize_alembic = FALSE /\ calls = <<>> /\ runs = 0

\* The application starts on a fresh database; init_db_samples runs at each
\* start and users delete workflows in between.
Init == EmptyDb /\ SeedIdle /\ WfIdle /\ MigIdle

Next == init_db_samples \/ init_db_samples_link \/ DeleteWorkflow

Spec == Init /\ [][Next]_vars

\* ------------------------------------------------------------------ databases for workflow_from_id
NAgents == 3        \* agents in the database
NModels == 1        \* models in the database
NSkills == 1        \* skills in the database
MaxSubLinks == 2    \* rows of the agent-agent link table
MaxWfLinks == 3     \* WorkflowAgentLink rows of the workflow
MaxSeq == 1         \* largest sequence_id of a WorkflowAgentLink row

RECURSIVE SetToSeq(_)
\* The pairs of S as rows, ordered by primary then secondary id.
SetToSeq(S) ==
    IF S = {} THEN <<>>
    ELSE LET m == CHOOSE x \in S : \A y \in S :
                     x[1] < y[1] \/ (x[1] = y[1] /\ x[2] <= y[2])
         IN  <<[primary_id |-> m[1], secondary_id |-> m[2]]>> \o SetToSeq(S \ {m})

AgentIds == 1..NAgents

\* Every agent type and every kind of llm_config occurs.
SomeAgents ==
    {[id |-> i, name |-> "agent",
      type |-> IF i = 1 THEN "groupchat" ELSE IF i % 2 = 0 THEN "assistant" ELSE "userproxy",
      llm_config |-> IF i % 3 = 1 THEN "dict" ELSE IF i % 3 = 2 THEN "empty" ELSE "false"] :
        i \in AgentIds}

RECURSIVE DistinctSeqs(_, _)
\* The sequences of at most n distinct elements of S.
DistinctSeqs(S, n) ==
    IF n = 0 THEN {<<>>}
    ELSE LET shorter == DistinctSeqs(S, n - 1)
         IN  shorter \cup {Append(p[1], p[2]) : p \in {x \in shorter \X S : x[2] \notin Range(x[1])}}

WfLinkRow(agent_id, sequence_id) ==
    [workflow_id |-> 1, agent_id |-> agent_id,
     agent_type |-> IF agent_id = 1 THEN "sender" ELSE "receiver", sequence_id |-> sequence_id]

\* Databases with one workflow whose agents nest: any agent-agent relation of
\* at most MaxSubLinks rows (cyclic ones too), one agent with models and
\* skills, and the workflow linked to the agents 1..k.
InitGraph ==
    /\ models = {[id |-> i, model |-> "model"] : i \in 1..NModels}
    /\ skills = {[id |-> i, name |-> "skill"] : i \in 1..NSkills}
    /\ agents = SomeAgents
    /\ workflows = {[id |-> 1, name |-> "workflow", type |-> "autonomous"]}
    /\ \E E \in SUBSET (AgentIds \X AgentIds) :
         /\ Cardinality(E) <= MaxSubLinks
         /\ agent_agent = SetToSeq(E)
    /\ \E a \in AgentIds, nm \in 0..NModels, ns \in 0..NSkills :
         /\ agent_model = SetToSeq({a} \X (1..nm))
         /\ agent_skill = SetToSeq({a} \X (1..ns))
    /\ \E k \in 0..NAgents :
         workflow_agent = [i \in 1..k |-> WfLinkRow(i, 0)]
    /\ SeedIdle /\ WfIdle /\ MigIdle

\* Databases with one workflow of either type whose WorkflowAgentLink rows
\* come in any order of agents and sequence ids.
InitOrder ==
    /\ models = {} /\ skills = {}
    /\ agents = SomeAgents
    /\ agent_model = <<>> /\ agent_skill = <<>> /\ agent_agent = <<>>
    /\ \E t \in {"autonomous", "sequential"} :
         workflows = {[id |-> 1, name |-> "workflow", type |-> t]}
    /\ workflow_agent \in
         DistinctSeqs({WfLinkRow(a, q) : a \in AgentIds, q \in 0..MaxSeq}, MaxWfLinks)
    /\ SeedIdle /\ WfIdle /\ MigIdle

NextMig == run_migration \/ query_alembic_version \/ initialize \/ check \/ recheck

SpecMig == Init /\ [][NextMig]_vars

MaxUserLinks == 1   \* models users link to agents in one behaviour

\* The agent-model rows that users added: the rows that no link call of a
\* finished init_db_samples made.
UserLinkCount ==
    LET seeded == {<<i, k>> \in (1..Len(seedLog)) \X (1..Len(SampleLinks)) :
                      /\ seedLog[i].inserted
                      /\ SampleLinks[k].link_type = "agent_model"
                      /\ k \notin seedLog[i].failed}
    IN  Len(agent_model) - Cardinality(seeded)

\* A user links a model to an agent through the API (dbmanager.link), any
\* agent and any model that are not linked yet. The links are made before the
\* workflows are read back: a read changes no table, so every database and
\* every result read from it is still reached.
UserLinkModel ==
    /\ seedPc = 0
    /\ wfCall.status \in {"none", "ValueError"}
    /\ UserLinkCount < MaxUserLinks
    /\ \E a \in agents, m \in models :
         /\ [primary_id |-> a.id, secondary_id |-> m.id] \notin Range(agent_model)
         /\ agent_model' = link(LinkTables, "agent_model", a.id, m.id, "none").agent_model
    /\ UNCHANGED <<models, skills, agents, workflows, agent_skill, agent_agent, workflow_agent,
                   seedVars, wfCall, migVars>>

\* The call of init_db_samples at the first start of the application.
FirstStart == seedLog = <<>> /\ init_db_samples

\* The application after its first start: the samples are seeded, users link
\* models to agents, and workflows are read back.
NextSamples == FirstStart \/ init_db_samples_link \/ UserLinkModel \/ WorkflowFromId

SpecSamples == Init /\ [][NextSamples]_vars

NextWf == WorkflowFromId

SpecGraph == InitGraph /\ [][NextWf]_vars

SpecOrder == InitOrder /\ [][NextWf]_vars

\* ------------------------------------------------------------------ claims: init_db_samples
CountNamed(rows, field, name) == Cardinality({r \in rows : r[field] = name})

SampleNames(seq) == Range(seq)

BothWorkflowsPresent ==
    /\ \E w \in workflows : w.name = "Default Workflow"
    /\ \E w \in workflows : w.name = "Travel Planning Workflow"

LinkCount == Len(agent_model) + Len(agent_skill) + Len(agent_agent) + Len(workflow_agent)

\* C1: over any sequence of init_db_samples calls and workflow deletions the
\* samples are inserted at most once, so no sample workflow, model, skill or
\* agent is ever in the database more than once.
C1_SamplesInsertedAtMostOnce ==
    /\ Cardinality({i \in 1..Len(seedLog) : seedLog[i].inserted}) <= 1
    /\ \A n \in SampleNames(SampleWorkflows) : CountNamed(workflows, "name", n) <= 1
    /\ \A n \in SampleNames(SampleModels) : CountNamed(models, "model", n) <= 1
    /\ \A n \in SampleNames(SampleSkills) : CountNamed(skills, "name", n) <= 1
    /\ \A i \in 1..Len(SampleAgents) : CountNamed(agents, "name", SampleAgents[i].name) <= 1

\* C2: a call of init_db_samples that finds both sample workflows changes no
\* table and makes no link call; so without deletions a second call on the
\* database the first call filled leaves one copy of the samples.
C2_InitializedDatabaseUntouched ==
    /\ [][(Len(seedLog') > Len(seedLog) /\ BothWorkflowsPresent)
            => (UNCHANGED dbVars /\ seedPc' = 0 /\ ~seedLog'[Len(seedLog')].inserted)]_vars
    /\ [](deletes = 0 =>
            /\ Cardinality({i \in 1..Len(seedLog) : seedLog[i].inserted}) <= 1
            /\ Cardinality(models) <= Len(SampleModels)
            /\ Cardinality(skills) <= Len(SampleSkills)
            /\ Cardinality(agents) <= Len(SampleAgents)
            /\ Cardinality(workflows) <= Len(SampleWorkflows)
            /\ LinkCount <= Len(SampleLinks))

\* Two calls in a row on the empty database: the second one found both
\* workflows and inserted nothing.
C2_Witness ==
    /\ Len(seedLog) = 2 /\ deletes = 0 /\ seedPc = 0
    /\ seedLog[1].empty_db /\ seedLog[1].inserted
    /\ seedLog[2].names = {"Default Workflow", "Travel Planning Workflow"}
    /\ ~seedLog[2].inserted
    /\ Cardinality(workflows) = 2

WorkflowLinks(w, agent_type) ==
    {i \in 1..Len(workflow_agent) :
        workflow_agent[i].workflow_id = w.id /\ workflow_agent[i].agent_type = agent_type}

LinkedAgentName(i) == (CHOOSE a \in agents : a.id = workflow_agent[i].agent_id).name

OneLinkTo(w, agent_type, name) ==
    /\ Cardinality(WorkflowLinks(w, agent_type)) = 1
    /\ \A i \in WorkflowLinks(w, agent_type) :
         /\ \E a \in agents : a.id = workflow_agent[i].agent_id
         /\ LinkedAgentName(i) = name

\* C3: when init_db_samples has run to completion on a database without
\* workflows and no link call failed, the database holds exactly 4 models,
\* 2 skills, 6 agents, 2 workflows and 14 links, each workflow has one sender
\* link to user_proxy and one receiver link to its assistant, and the
\* records are in the tables before the first link call.
C3_SeededDatabase ==
    /\ (seedPc >= 1) =>
          /\ \A n \in DOMAIN seedIds :
                \/ \E r \in models : r.id = seedIds[n] /\ r.model = n
                \/ \E r \in skills \cup agents \cup workflows : r.id = seedIds[n] /\ r.name = n
    /\ (/\ seedPc = 0
        /\ Len(seedLog) >= 1
        /\ seedLog[Len(seedLog)].inserted
        /\ seedLog[Len(seedLog)].names = {}
        /\ seedLog[Len(seedLog)].failed = {}
        /\ seedLog[Len(seedLog)].deletes = deletes)
       => /\ Cardinality(models) = 4
          /\ Cardinality(skills) = 2
          /\ Cardinality(agents) = 6
          /\ Cardinality(workflows) = 2
          /\ LinkCount = 14
          /\ \A w \in workflows :
               /\ OneLinkTo(w, "sender", "user_proxy")
               /\ OneLinkTo(w, "receiver", IF w.name = "Default Workflow"
                                           THEN "default_assistant" ELSE "travel_groupchat")

\* C3 on the first run only: the same statement for a call that found the
\* database empty. It holds; C3 fails on the later runs alone.
C3_FirstRunSeededDatabase ==
    (/\ seedPc = 0
     /\ Len(seedLog) >= 1
     /\ seedLog[Len(seedLog)].inserted
     /\ seedLog[Len(seedLog)].empty_db
     /\ seedLog[Len(seedLog)].failed = {}
     /\ seedLog[Len(seedLog)].deletes = deletes)
    => /\ Cardinality(models) = 4
       /\ Cardinality(skills) = 2
       /\ Cardinality(agents) = 6
       /\ Cardinality(workflows) = 2
       /\ LinkCount = 14
       /\ \A w \in workflows :
            /\ OneLinkTo(w, "sender", "user_proxy")
            /\ OneLinkTo(w, "receiver", IF w.name = "Default Workflow"
                                        THEN "default_assistant" ELSE "travel_groupchat")

\* ------------------------------------------------------------------ claims: workflow_from_id
WorkflowExists(workflow_id) == \E w \in workflows : w.id = workflow_id

\* C4: workflow_from_id with the id of no Workflow row raises ValueError after
\* the query on Workflow alone, and changes no table.
C4_MissingWorkflowRaises ==
    /\ []((wfCall.status # "none" /\ ~WorkflowExists(wfCall.workflow_id))
            => (wfCall.status = "ValueError" /\ wfCall.queries = <<"Workflow">>))
    /\ [][wfCall' # wfCall => UNCHANGED dbVars]_vars

C4_Witness ==
    /\ wfCall.status = "ValueError"
    /\ ~WorkflowExists(wfCall.workflow_id)
    /\ workflow_agent # <<>>

\* The agents reachable from agent a over one or more agent-agent links.
RECURSIVE ReachFrom(_, _)
ReachFrom(frontier, seen) ==
    LET next == {agent_agent[i].secondary_id :
                    i \in {j \in 1..Len(agent_agent) : agent_agent[j].primary_id \in frontier}}
    IN  IF next \subseteq seen THEN seen ELSE ReachFrom(next \ seen, seen \cup next)

SubAgents(a) == ReachFrom({a}, {})

WorkflowAgentIds(workflow_id) ==
    {workflow_agent[i].agent_id :
        i \in {j \in 1..Len(workflow_agent) : workflow_agent[j].workflow_id = workflow_id}}

\* No agent of the workflow, at any depth, is its own sub-agent.
Acyclic(workflow_id) ==
    \A a \in WorkflowAgentIds(workflow_id) :
        /\ a \notin SubAgents(a)
        /\ \A b \in SubAgents(a) : b \notin SubAgents(b)

RowsOf(table, id) == {i \in 1..Len(table) : table[i].primary_id = id}

RECURSIVE WellNested(_)
\* The dictionary d lists each linked skill, model and sub-agent of its agent
\* once, and so does the dictionary of every sub-agent.
WellNested(d) ==
    /\ d.error = "none"
    /\ Len(d.skills) = Cardinality(RowsOf(agent_skill, d.id))
    /\ \A i \in RowsOf(agent_skill, d.id) :
         Cardinality({j \in 1..Len(d.skills) : d.skills[j].id = agent_skill[i].secondary_id}) = 1
    /\ Len(d.models) = Cardinality(RowsOf(agent_model, d.id))
    /\ \A i \in RowsOf(agent_model, d.id) :
         Cardinality({j \in 1..Len(d.models) : d.models[j].id = agent_model[i].secondary_id}) = 1
    /\ Len(d.agents) = Cardinality(RowsOf(agent_agent, d.id))
    /\ \A i \in RowsOf(agent_agent, d.id) :
         Cardinality({j \in 1..Len(d.agents) :
                        d.agents[j].error = "none" /\ d.agents[j].id = agent_agent[i].secondary_id}) = 1
    /\ \A j \in 1..Len(d.agents) : WellNested(d.agents[j])

WorkflowLinkRows(workflow_id) ==
    {i \in 1..Len(workflow_agent) : workflow_agent[i].workflow_id = workflow_id}

\* C5: for an existing workflow whose agents nest without a cycle,
\* workflow_from_id returns, with one {agent, link} entry per WorkflowAgentLink
\* row of the workflow, each agent dictionary listing its linked skills, models
\* and sub-agents once, to every depth.
C5_NestedAgentsComplete ==
    (/\ wfCall.status # "none"
     /\ WorkflowExists(wfCall.workflow_id)
     /\ Acyclic(wfCall.workflow_id))
    => /\ wfCall.status = "returned"
       /\ LET entries == wfCall.workflow.agents
              rows == WorkflowLinkRows(wfCall.workflow_id)
          IN  /\ Len(entries) = Cardinality(rows)
              /\ \A i \in rows :
                   Cardinality({j \in 1..Len(entries) : entries[j].link = workflow_agent[i]}) = 1
              /\ \A j \in 1..Len(entries) :
                   /\ DOMAIN entries[j] = {"agent", "link"}
                   /\ entries[j].agent.error = "none"
                   /\ entries[j].agent.id = entries[j].link.agent_id
                   /\ WellNested(entries[j].agent)

\* A returned workflow with an agent nested two levels down and an agent that
\* has a skill and a model.
C5_Witness ==
    /\ wfCall.status = "returned"
    /\ Acyclic(wfCall.workflow_id)
    /\ \E j \in 1..Len(wfCall.workflow.agents) :
         LET d == wfCall.workflow.agents[j].agent
         IN  \E k \in 1..Len(d.agents) : Len(d.agents[k].agents) > 0
    /\ \E j \in 1..Len(wfCall.workflow.agents) :
         LET d == wfCall.workflow.agents[j].agent
         IN  Len(d.skills) > 0 /\ Len(d.models) > 0

\* The position of a link row among the rows the query returned.
RowIndex(l) == CHOOSE i \in 1..Len(workflow_agent) : workflow_agent[i] = l

\* C7: for a sequential workflow the entries of "agents" are in non-decreasing
\* order of link sequence_id, entries of equal sequence_id in the order of the
\* query; for any other type the entries are in the order of the query.
C7_AgentsOrder ==
    (wfCall.status = "returned") =>
       LET entries == wfCall.workflow.agents
           queried == SelectSeq2(workflow_agent,
                         {r \in Range(workflow_agent) : r.workflow_id = wfCall.workflow_id})
       IN  /\ Len(entries) = Len(queried)
           /\ {entries[j].link : j \in 1..Len(entries)} = Range(queried)
           /\ IF wfCall.workflow.type = "sequential"
              THEN \A i, j \in 1..Len(entries) :
                     i < j =>
                        /\ entries[i].link.sequence_id <= entries[j].link.sequence_id
                        /\ (entries[i].link.sequence_id = entries[j].link.sequence_id
                              => RowIndex(entries[i].link) < RowIndex(entries[j].link))
              ELSE \A j \in 1..Len(entries) : entries[j].link = queried[j]

\* A sequential workflow whose entries were reordered and hold two links of
\* equal sequence_id.
C7_Witness ==
    /\ wfCall.status = "returned"
    /\ wfCall.workflow.type = "sequential"
    /\ LET entries == wfCall.workflow.agents
       IN  /\ Len(entries) = 3
           /\ entries[1].link # workflow_agent[1]
           /\ \E i, j \in 1..Len(entries) :
                i < j /\ entries[i].link.sequence_id = entries[j].link.sequence_id

\* ------------------------------------------------------------------ claims: run_migration
Count(cmd) == Cardinality({i \in 1..Len(calls) : calls[i].cmd = cmd})

AfterInitialize == migPc \notin {"idle", "query", "initialize"}

\* C6: command.check is invoked at most once in an execution of run_migration.
C6_SingleCheck == Count("check") <= 1

\* C6 as amended: command.check is invoked at most twice, and twice in every
\* execution that gets past the second try block.
C6_AtMostTwoChecks ==
    /\ Count("check") <= 2
    /\ (migPc \in {"returned", "propagated"}) => Count("check") = 2
    /\ (migPc = "RuntimeError") => Count("check") = 0

C6_Witness == migPc = "returned" /\ Count("check") = 2 /\ Count("upgrade") = 0

\* C8: when the query on alembic_version failed, ensure_version is the first
\* command and upgrade the next, both before any check; when it succeeded,
\* ensure_version is never invoked and the first command is check.
C8_InitializationOrder ==
    AfterInitialize =>
       IF should_initialize_alembic
       THEN /\ Len(calls) >= 1
            /\ calls[1].cmd = "ensure_version"
            /\ (calls[1].outcome = "ok") => (Len(calls) >= 2 /\ calls[2].cmd = "upgrade")
            /\ \A i \in 1..Len(calls) :
                 (calls[i].cmd = "check") =>
                    (i > 2 /\ calls[1].outcome = "ok" /\ calls[2].outcome = "ok")
       ELSE /\ Count("ensure_version") = 0
            /\ (Len(calls) >= 1) => calls[1].cmd = "check"
            /\ (migPc # "check") => Len(calls) >= 1

C8_Witness ==
    /\ migPc = "returned"
    /\ should_initialize_alembic
    /\ Len(calls) >= 3
    /\ calls[1].cmd = "ensure_version" /\ calls[2].cmd = "upgrade" /\ calls[3].cmd = "check"

InitializationRaised ==
    /\ should_initialize_alembic
    /\ Len(calls) >= 1
    /\ \/ Raised(calls[1].outcome)
       \/ (Len(calls) >= 2 /\ Raised(calls[2].outcome))

\* C9: if ensure_version or upgrade raises in the initialization step,
\* run_migration raises RuntimeError and invokes no check and no further upgrade.
C9_InitializationErrorStops ==
    (AfterInitialize /\ InitializationRaised) =>
       /\ migPc = "RuntimeError"
       /\ Count("check") = 0
       /\ Len(calls) <= 2
       /\ Count("upgrade") <= 1
       /\ Raised(calls[Len(calls)].outcome)

C9_Witness ==
    /\ migPc = "RuntimeError"
    /\ Len(calls) = 2
    /\ calls[2].cmd = "upgrade" /\ Raised(calls[2].outcome)

\* The commands invoked after the initialization step.
PostCalls == SubSeq(calls, (IF should_initialize_alembic THEN 3 ELSE 1), Len(calls))

CheckFailure == {"CommandError", "AutogenerateDiffsDetected"}

\* C10: past the initialization step, upgrade is invoked exactly when the
\* first check raised CommandError or AutogenerateDiffsDetected, and once;
\* whatever that upgrade raises the second check is made, and when that check
\* returns or raises one of the two, run_migration returns normally.
C10_BestEffortCheck ==
    (migPc \in {"recheck", "returned", "propagated"}) =>
       LET post == PostCalls
           upgrades == {i \in 1..Len(post) : post[i].cmd = "upgrade"}
       IN  /\ Len(post) >= 1 /\ post[1].cmd = "check"
           /\ IF post[1].outcome \in CheckFailure
              THEN upgrades = {2}
              ELSE upgrades = {}
           /\ (migPc # "recheck") =>
                 /\ Len(post) = Cardinality(upgrades) + 2
                 /\ post[Len(post)].cmd = "check"
                 /\ (post[Len(post)].outcome \in CheckFailure \cup {"ok"}) => migPc = "returned"

\* The upgrade after a failed check raised, the second check raised
\* CommandError, and run_migration returned.
C10_Witness ==
    /\ migPc = "returned"
    /\ LET post == PostCalls
       IN  /\ Len(post) = 3
           /\ post[1].outcome = "AutogenerateDiffsDetected"
           /\ post[2].cmd = "upgrade" /\ Raised(post[2].outcome)
           /\ post[3].outcome = "CommandError"

\* ------------------------------------------------------------------ claims: config_list
RECURSIVE NestedDicts(_)
\* The agent dictionary d and the dictionaries nested in it, at every depth.
NestedDicts(d) == {d} \cup UNION {NestedDicts(d.agents[j]) : j \in 1..Len(d.agents)}

\* The agent dictionaries of the returned workflow.
ResultDicts ==
    UNION {NestedDicts(wfCall.workflow.agents[j].agent) : j \in 1..Len(wfCall.workflow.agents)}

\* The linked models of agent id, in row order, each without its id.
LinkedModelNames(id) ==
    LET rows == SelectSeq2(agent_model, {r \in Range(agent_model) : r.primary_id = id})
    IN  [i \in 1..Len(rows) |->
            [model |-> (CHOOSE m \in models : m.id = rows[i].secondary_id).model]]

\* The result in wfCall was computed from the tables as they are now.
ResultCurrent == wfCall = workflow_from_id(wfCall.workflow_id)

ReceiverDicts ==
    {wfCall.workflow.agents[j].agent :
        j \in {k \in 1..Len(wfCall.workflow.agents) :
                  wfCall.workflow.agents[k].link.agent_type = "receiver"}}

HasGpt4(d) ==
    /\ d.config_list.set
    /\ [model |-> "gpt-4-1106-preview"] \in Range(d.config_list.value)

DefaultWorkflowReturned ==
    /\ wfCall.status = "returned"
    /\ wfCall.workflow.name = "Default Workflow"
    /\ Len(seedLog) >= 1 /\ seedLog[1].empty_db /\ seedLog[1].inserted

====
